---- MODULE Spec2Model ----
(***************************************************************************)
(* cpp20modules_tools: the two commands agg-ddi (aggregate dependency      *)
(* descriptors and registries into one registry) and gen-modmap (resolve   *)
(* one descriptor against a registry into compiler arguments).             *)
(*                                                                         *)
(* Strings built by format!/push_str are sequences of segments: a literal  *)
(* piece, an interpolated value, or the newline "\n"; concatenation is \o. *)
(* HashMaps are functions whose DOMAIN is the key set.                     *)
(***************************************************************************)
EXTENDS Integers, Sequences, FiniteSets, TLC

VARIABLES
    cmd,                \* the command that runs: "gen-modmap" or "agg-ddi"
    cmdline,            \* the command line as given
    args,               \* Args::parse() of the command line
    pc,                 \* the statement of main the run is at
    compiler,           \* gen-modmap: the parsed Compiler
    cpp20modules_info,  \* the registry in memory (read, or accumulated)
    ddi,                \* the descriptor in memory (the last one read)
    idx,                \* agg-ddi: position in the list a loop iterates over
    merged,             \* the operands of the last merge_cpp20modules_info call
    result,             \* the Result of generate_modmap / to_string_pretty
    out,                \* the output path: untouched, created, partial, written
    opened,             \* the input paths read_file was called on, in order
    failure             \* the statement whose error ended the run, if any

vars == <<cmd, cmdline, args, pc, compiler, cpp20modules_info, ddi, idx,
          merged, result, out, opened, failure>>

-----------------------------------------------------------------------------
(* Bounds of the model *)

MaxRules == 2

MaxInputs == 3

-----------------------------------------------------------------------------
(* lib.rs: the data model *)

Module(bmi, is_private) == [bmi |-> bmi, is_private |-> is_private]

Reference(lookup_method, path) == [lookup_method |-> lookup_method, path |-> path]

Cpp20ModulesInfo(modules, references, usages) ==
    [modules |-> modules, references |-> references, usages |-> usages]

Require(logical_name) == [logical_name |-> logical_name]

Provide(is_interface, logical_name, source_path) ==
    [is_interface |-> is_interface, logical_name |-> logical_name,
     source_path |-> source_path]

Rule(primary_output, provides, requires) ==
    [primary_output |-> primary_output, provides |-> provides, requires |-> requires]

Ddi(revision, rules, version) ==
    [revision |-> revision, rules |-> rules, version |-> version]

\* HashMap::new()
EmptyMap == [k \in {} |-> k]

\* Result<T, E>
Ok(v) == [tag |-> "Ok", value |-> v]

Err(e) == [tag |-> "Err", value |-> e]

\* enum Compiler
Compilers == {"Clang", "Gcc", "Msvc"}

\* char::to_lowercase on the letters the dialect names use
LowerChar(c) ==
    CASE c = "C" -> "c" [] c = "L" -> "l" [] c = "A" -> "a" [] c = "N" -> "n"
      [] c = "G" -> "g" [] c = "M" -> "m" [] c = "S" -> "s" [] c = "V" -> "v"
      [] c = "I" -> "i"
      [] OTHER -> c

\* str::to_lowercase
to_lowercase(s) == [k \in 1..Len(s) |-> LowerChar(s[k])]

\* Compiler::from_str
from_str(s) ==
    LET l == to_lowercase(s) IN
    CASE l = <<"c", "l", "a", "n", "g">> -> Ok("Clang")
      [] l = <<"g", "c", "c">> -> Ok("Gcc")
      [] l = <<"m", "s", "v", "c">> -> Ok("Msvc")
      [] OTHER -> Err(<<"Unsupported compiler: ", s>>)

\* An input path: the document it holds, or a path that cannot be opened or
\* whose content does not parse as the expected document
File(doc) == [readable |-> TRUE, doc |-> doc]

Unreadable == [readable |-> FALSE, doc |-> <<>>]

\* read_file: File::open(path)?, serde_json::from_reader(reader)?, Ok(data)
read_file(file) ==
    IF file.readable THEN Ok(file.doc) ELSE Err(<<"io or parse error">>)

-----------------------------------------------------------------------------
(* gen-modmap.rs: generate_modmap *)

\* String::new()
EmptyString == <<>>

\* A slip in the match arms: Gcc falls into the Msvc arm
OutputDeclarationGccAsMsvc(c, module) ==
    IF c \in {"Clang"}
    THEN <<"-x c++-module", "\n">> \o <<"-fmodule-output=", module.bmi, "\n">>
    ELSE <<"/module:output ", module.bmi, "\n">>

\* lines 44-52: the output declaration of the dialect
OutputDeclaration(c, module) ==
    IF c \in {"Clang", "Gcc"}
    THEN <<"-x c++-module", "\n">> \o <<"-fmodule-output=", module.bmi, "\n">>
    ELSE <<"/module:output ", module.bmi, "\n">>

\* lines 57-70: the mapping of one required module
RequireMapping(c, require, reference) ==
    IF c \in {"Clang", "Gcc"}
    THEN <<"-fmodule-file=", require.logical_name, "=", reference.path, "\n">>
    ELSE <<"/module:reference ", require.logical_name, "=", reference.path, "\n">>

\* lines 72-76: the missing-reference error
MissingReference(require) ==
    <<"Reference for required module '", require.logical_name, "' not found">>

\* lines 55-78: the loop over the rule's requires, from index j on
RECURSIVE RequiresLoop(_, _, _, _, _)
RequiresLoop(c, info, requires, j, modmap_content) ==
    IF j > Len(requires)
    THEN Ok(modmap_content)                         \* break (81), then Ok (85)
    ELSE LET require == requires[j] IN
         IF require.logical_name \in DOMAIN info.references
         THEN RequiresLoop(c, info, requires, j + 1,
                  modmap_content
                    \o RequireMapping(c, require, info.references[require.logical_name]))
         ELSE Err(MissingReference(require))

\* A slip in the nesting: the requires of every rule are resolved, whether or
\* not the rule provides a module
RECURSIVE RulesLoopAllRequires(_, _, _, _, _)
RulesLoopAllRequires(c, info, rules, i, modmap_content) ==
    IF i > Len(rules)
    THEN Ok(modmap_content)
    ELSE LET rule == rules[i]
             r == RequiresLoop(c, info, rule.requires, 1, modmap_content)
         IN  IF r.tag = "Err" THEN r
             ELSE RulesLoopAllRequires(c, info, rules, i + 1, r.value)

\* lines 34-83: the loop over the descriptor's rules, from index i on
RECURSIVE RulesLoop(_, _, _, _, _)
RulesLoop(c, info, rules, i, modmap_content) ==
    IF i > Len(rules)
    THEN Ok(modmap_content)
    ELSE LET rule == rules[i] IN
         IF rule.provides = <<>>
         THEN RulesLoop(c, info, rules, i + 1, modmap_content)      \* continue
         ELSE LET logical_name == rule.provides[1].logical_name IN
              IF logical_name \in DOMAIN info.modules
              THEN RequiresLoop(c, info, rule.requires, 1,
                       modmap_content \o OutputDeclaration(c, info.modules[logical_name]))
              ELSE RulesLoop(c, info, rules, i + 1, modmap_content) \* next rule

generate_modmap(c, info, d) == RulesLoop(c, info, d.rules, 1, EmptyString)

-----------------------------------------------------------------------------
(* agg-ddi.rs: the registry builder *)

\* HashMap::insert: the key's value is replaced, or the key is added
Insert(map, k, v) == [x \in DOMAIN map \cup {k} |-> IF x = k THEN v ELSE map[x]]

\* A slip: the provide's is_interface is stored without the negation
RECURSIVE ProvidesLoopNotNegated(_, _, _)
ProvidesLoopNotNegated(info, rule, j) ==
    IF j > Len(rule.provides)
    THEN info
    ELSE LET provide == rule.provides[j]
             logical_name == provide.logical_name
         IN  ProvidesLoopNotNegated(
                 [info EXCEPT
                    !.modules = Insert(@, logical_name,
                                    Module(rule.primary_output, provide.is_interface)),
                    !.references = Insert(@, logical_name,
                                    Reference("by-name", rule.primary_output))],
                 rule, j + 1)

\* lines 31-49: the loop over one rule's provides, from index j on
RECURSIVE ProvidesLoop(_, _, _)
ProvidesLoop(info, rule, j) ==
    IF j > Len(rule.provides)
    THEN info
    ELSE LET provide == rule.provides[j]
             logical_name == provide.logical_name
         IN  ProvidesLoop(
                 [info EXCEPT
                    !.modules = Insert(@, logical_name,
                                    Module(rule.primary_output, ~provide.is_interface)),
                    !.references = Insert(@, logical_name,
                                    Reference("by-name", rule.primary_output))],
                 rule, j + 1)

\* lines 30-50: the loop over the descriptor's rules, from index i on
RECURSIVE FoldRulesLoop(_, _, _)
FoldRulesLoop(info, rules, i) ==
    IF i > Len(rules)
    THEN info
    ELSE FoldRulesLoop(ProvidesLoop(info, rules[i], 1), rules, i + 1)

\* lines 23-54
transform_ddi_to_cpp20modules_info(d) ==
    LET info == FoldRulesLoop(Cpp20ModulesInfo(EmptyMap, EmptyMap, EmptyMap),
                              d.rules, 1)
    IN  [info EXCEPT !.usages = EmptyMap]

\* A slip: entry(k).or_insert(v), which keeps the entry the map already has
RECURSIVE ExtendKeepExisting(_, _, _)
ExtendKeepExisting(map, other, keys) ==
    IF keys = {}
    THEN map
    ELSE LET k == CHOOSE x \in keys : TRUE
         IN  ExtendKeepExisting(IF k \in DOMAIN map THEN map
                                ELSE Insert(map, k, other[k]),
                                other, keys \ {k})

\* HashMap::extend: every entry of `other` still to move (`keys`) is inserted,
\* one at a time, in the iteration order of `other`
RECURSIVE Extend(_, _, _)
Extend(map, other, keys) ==
    IF keys = {}
    THEN map
    ELSE LET k == CHOOSE x \in keys : TRUE
         IN  Extend(Insert(map, k, other[k]), other, keys \ {k})

\* A slip: the references line is left out
merge_modules_only(info1, info2) ==
    [info1 EXCEPT !.modules = Extend(@, info2.modules, DOMAIN info2.modules)]

\* A slip: usages is extended like the other two maps
merge_with_usages(info1, info2) ==
    [info1 EXCEPT
       !.modules = Extend(@, info2.modules, DOMAIN info2.modules),
       !.references = Extend(@, info2.references, DOMAIN info2.references),
       !.usages = Extend(@, info2.usages, DOMAIN info2.usages)]

\* lines 57-64: info1 after the call; usages is not touched
merge_cpp20modules_info(info1, info2) ==
    [info1 EXCEPT
       !.modules = Extend(@, info2.modules, DOMAIN info2.modules),
       !.references = Extend(@, info2.references, DOMAIN info2.references)]

\* #[derive(Serialize)] of Module, with the renamed key
ModuleJson(m) == ("bmi" :> m.bmi) @@ ("is-private" :> m.is_private)

\* #[derive(Serialize)] of Reference, with the renamed key
ReferenceJson(r) == ("lookup-method" :> r.lookup_method) @@ ("path" :> r.path)

\* serde_json::to_string_pretty(&cpp20modules_info): the registry document
to_string_pretty(info) ==
    Ok([modules |-> [n \in DOMAIN info.modules |-> ModuleJson(info.modules[n])],
        references |-> [n \in DOMAIN info.references |->
                          ReferenceJson(info.references[n])],
        usages |-> info.usages])

\* clap's parse of agg-ddi's command line: every -d value goes to args.ddi and
\* every -m value to args.cpp20modules_info, each list in the order given
IsDdiOption(a) == a.opt = "d"

IsInfoOption(a) == a.opt = "m"

Values(options) == [k \in 1..Len(options) |-> options[k].file]

AggArgs(line) ==
    [ddi |-> Values(SelectSeq(line, IsDdiOption)),
     cpp20modules_info |-> Values(SelectSeq(line, IsInfoOption))]

-----------------------------------------------------------------------------
(* State *)

NoResult == [tag |-> "None", value |-> <<>>]

NoInfo == Cpp20ModulesInfo(EmptyMap, EmptyMap, EmptyMap)

NoDdi == Ddi(0, <<>>, 0)

NoMerge == [done |-> FALSE, base |-> NoInfo, incoming |-> NoInfo]

Untouched == [state |-> "untouched", content |-> <<>>]

-----------------------------------------------------------------------------
(* Input documents *)

SeqsUpTo(S, n) == UNION {[1..k -> S] : k \in 0..n}

Names == {"foo", "bar"}

\* The artifact paths the sample registry gives a name (tests, lines 131-164)
BmiPath(n) == IF n = "foo" THEN "out/foo.pcm" ELSE "out/bar.pcm"

RefPath(n) == IF n = "foo" THEN "foo.pcm" ELSE "bar.pcm"

\* Registries a registry document can hold: any subset of the names as
\* modules, any subset as references
ResolveRegistries ==
    {Cpp20ModulesInfo([n \in M |-> Module(BmiPath(n), FALSE)],
                      [n \in R |-> Reference("by-name", RefPath(n))],
                      EmptyMap) : M \in SUBSET Names, R \in SUBSET Names}

ProvideLists ==
    {<<>>,
     <<Provide(TRUE, "foo", "foo.cpp")>>,
     <<Provide(TRUE, "bar", "bar.cpp")>>,
     <<Provide(TRUE, "bar", "bar.cpp"), Provide(FALSE, "foo", "bar.cpp")>>}

RequireLists ==
    {<<>>,
     <<Require("foo")>>,
     <<Require("foo"), Require("bar")>>,
     <<Require("bar"), Require("foo")>>}

ResolveRules == {Rule("unit.o", p, r) : p \in ProvideLists, r \in RequireLists}

ResolveDdis == {Ddi(0, rs, 1) : rs \in SeqsUpTo(ResolveRules, MaxRules)}

\* Descriptors with every shape the fold distinguishes: no rule, rules without
\* provides, a name provided twice in one rule or in two rules, interface and
\* private provides
Outputs == {"o1", "o2"}

FoldProvideLists ==
    {<<>>,
     <<Provide(TRUE, "foo", "foo.cpp")>>,
     <<Provide(FALSE, "foo", "foo.cpp")>>,
     <<Provide(FALSE, "bar", "bar.cpp")>>,
     <<Provide(TRUE, "foo", "foo.cpp"), Provide(TRUE, "bar", "bar.cpp")>>,
     <<Provide(TRUE, "foo", "foo.cpp"), Provide(FALSE, "foo", "foo2.cpp")>>}

FoldRequireLists == {<<>>, <<Require("bar")>>}

FoldRules ==
    {Rule(o, p, r) : o \in Outputs, p \in FoldProvideLists, r \in FoldRequireLists}

FoldDdis == {Ddi(0, rs, 1) : rs \in SeqsUpTo(FoldRules, MaxRules)}

\* The files the commands are run on
SampleDdi ==
    Ddi(0, <<Rule("bar.o", <<Provide(TRUE, "bar", "bar.cpp")>>, <<Require("foo")>>)>>, 1)

SampleInfo ==
    Cpp20ModulesInfo([n \in {"bar"} |-> Module(BmiPath(n), FALSE)],
                     [n \in {"bar", "foo"} |-> Reference("by-name", RefPath(n))],
                     EmptyMap)

GenInfoFiles ==
    {Unreadable,
     File(SampleInfo),
     File([SampleInfo EXCEPT !.references = [n \in {"bar"} |-> @[n]]]),
     File(NoInfo)}

GenDdiFiles ==
    {Unreadable,
     File(SampleDdi),
     File(Ddi(0, <<Rule("main.o", <<>>, <<Require("foo")>>)>>, 1)),
     File(Ddi(0, <<Rule("foo.o", <<Provide(TRUE, "foo", "foo.cpp")>>, <<>>),
                   Rule("bar.o", <<Provide(TRUE, "bar", "bar.cpp")>>,
                        <<Require("bar"), Require("foo")>>)>>, 1))}

CompilerArgs ==
    {<<"c", "l", "a", "n", "g">>, <<"G", "C", "C">>, <<"M", "s", "v", "c">>,
     <<"i", "c", "c">>}

GenCommandLines ==
    [compiler : CompilerArgs, cpp20modules_info : GenInfoFiles, ddi : GenDdiFiles]

AggDdiFiles ==
    {Unreadable,
     File(Ddi(0, <<Rule("o1", <<Provide(TRUE, "foo", "foo.cpp")>>,
                        <<Require("bar")>>)>>, 1)),
     File(Ddi(0, <<Rule("o2", <<Provide(FALSE, "foo", "foo.cpp")>>, <<>>)>>, 1)),
     File(Ddi(0, <<Rule("o1", <<Provide(TRUE, "bar", "bar.cpp")>>, <<>>),
                   Rule("o2", <<Provide(FALSE, "bar", "bar.cpp"),
                                Provide(TRUE, "foo", "foo.cpp")>>, <<>>)>>, 1)),
     File(Ddi(0, <<Rule("o1", <<>>, <<Require("foo")>>)>>, 1))}

AggInfoFiles ==
    {Unreadable,
     File(Cpp20ModulesInfo([n \in {"foo"} |-> Module("o1", FALSE)],
                           [n \in {"foo"} |-> Reference("by-name", "o1")],
                           EmptyMap)),
     File(Cpp20ModulesInfo(EmptyMap,
                           [n \in {"foo"} |-> Reference("by-name", "o2")],
                           EmptyMap)),
     File(Cpp20ModulesInfo([n \in {"bar"} |-> Module("o2", TRUE)],
                           [n \in {"bar", "foo"} |->
                              Reference("by-name", IF n = "bar" THEN "o2" ELSE "o1")],
                           EmptyMap)),
     File([SampleInfo EXCEPT !.usages = [n \in {"foo"} |-> <<"bar">>]])}

AggOptions ==
    {[opt |-> "d", file |-> f] : f \in AggDdiFiles}
      \cup {[opt |-> "m", file |-> f] : f \in AggInfoFiles}

AggCommandLines == SeqsUpTo(AggOptions, MaxInputs)

-----------------------------------------------------------------------------
(* lib.rs: write_file, shared by both commands *)

\* line 90: File::create(path)?  The file is created or truncated, or the
\* call fails and the path is left as it was
WriteCreate ==
    /\ pc = "write_create"
    /\ \/ /\ out' = [state |-> "created", content |-> <<>>]
          /\ pc' = "write_all"
          /\ UNCHANGED failure
       \/ /\ pc' = "exit_err"
          /\ failure' = "create"
          /\ UNCHANGED out
    /\ UNCHANGED <<cmd, cmdline, args, compiler, cpp20modules_info, ddi, idx,
                   merged, result, opened>>

\* The content holds a name or a path, whose length is not bounded: it can
\* reach the capacity of the BufWriter, and only then write_all writes through
\* to the file and can fail; less content stays in the buffer
MayExceedBuffer(content) ==
    IF cmd = "gen-modmap" THEN content # <<>>
    ELSE DOMAIN content.modules \cup DOMAIN content.references
           \cup DOMAIN content.usages # {}

\* lines 91-93: writer.write_all(content.as_bytes())?; Ok(())  A write that
\* fails returns the error and leaves the created file with part of the
\* content at most.  The writer is flushed when it is dropped, where an error
\* is ignored: the call can return Ok with the content not fully in the file
WriteAll ==
    /\ pc = "write_all"
    /\ \/ /\ out' = [state |-> "written", content |-> result.value]
          /\ pc' = "exit_ok"
          /\ UNCHANGED failure
       \/ /\ out' = [state |-> "partial", content |-> <<>>]
          /\ pc' = "exit_ok"
          /\ UNCHANGED failure
       \/ /\ MayExceedBuffer(result.value)
          /\ out' = [state |-> "partial", content |-> <<>>]
          /\ pc' = "exit_err"
          /\ failure' = "write"
    /\ UNCHANGED <<cmd, cmdline, args, compiler, cpp20modules_info, ddi, idx,
                   merged, result, opened>>

-----------------------------------------------------------------------------
(* gen-modmap.rs: main *)

\* lines 93-96: Compiler::from_str(&args.compiler)?
GenParseCompiler ==
    /\ cmd = "gen-modmap"
    /\ pc = "parse_compiler"
    /\ LET r == from_str(args.compiler) IN
       IF r.tag = "Ok"
       THEN /\ compiler' = r.value
            /\ pc' = "read_info"
            /\ UNCHANGED failure
       ELSE /\ pc' = "exit_err"
            /\ failure' = "compiler"
            /\ UNCHANGED compiler
    /\ UNCHANGED <<cmd, cmdline, args, cpp20modules_info, ddi, idx, merged,
                   result, out, opened>>

\* lines 99-105: read_file(&args.cpp20modules_info)?
GenReadInfo ==
    /\ cmd = "gen-modmap"
    /\ pc = "read_info"
    /\ LET r == read_file(args.cpp20modules_info) IN
       /\ opened' = Append(opened, [opt |-> "m", ok |-> r.tag = "Ok"])
       /\ IF r.tag = "Ok"
          THEN /\ cpp20modules_info' = r.value
               /\ pc' = "read_ddi"
               /\ UNCHANGED failure
          ELSE /\ pc' = "exit_err"
               /\ failure' = "read"
               /\ UNCHANGED cpp20modules_info
    /\ UNCHANGED <<cmd, cmdline, args, compiler, ddi, idx, merged, result, out>>

\* lines 108-111: read_file(&args.ddi)?
GenReadDdi ==
    /\ cmd = "gen-modmap"
    /\ pc = "read_ddi"
    /\ LET r == read_file(args.ddi) IN
       /\ opened' = Append(opened, [opt |-> "d", ok |-> r.tag = "Ok"])
       /\ IF r.tag = "Ok"
          THEN /\ ddi' = r.value
               /\ pc' = "generate"
               /\ UNCHANGED failure
          ELSE /\ pc' = "exit_err"
               /\ failure' = "read"
               /\ UNCHANGED ddi
    /\ UNCHANGED <<cmd, cmdline, args, compiler, cpp20modules_info, idx, merged,
                   result, out>>

\* A slip: the error of generate_modmap is not propagated and the run goes on
\* to write
GenGenerateIgnoresError ==
    /\ cmd = "gen-modmap"
    /\ pc = "generate"
    /\ result' = generate_modmap(compiler, cpp20modules_info, ddi)
    /\ pc' = "write_create"
    /\ UNCHANGED <<cmd, cmdline, args, compiler, cpp20modules_info, ddi, idx,
                   merged, out, opened, failure>>

\* line 114: generate_modmap(compiler, &cpp20modules_info, &ddi)?
GenGenerate ==
    /\ cmd = "gen-modmap"
    /\ pc = "generate"
    /\ result' = generate_modmap(compiler, cpp20modules_info, ddi)
    /\ pc' = IF result'.tag = "Ok" THEN "write_create" ELSE "exit_err"
    /\ failure' = IF result'.tag = "Ok" THEN failure ELSE "resolve"
    /\ UNCHANGED <<cmd, cmdline, args, compiler, cpp20modules_info, ddi, idx,
                   merged, out, opened>>

-----------------------------------------------------------------------------
(* agg-ddi.rs: main *)

\* lines 77-84: one iteration of the loop over args.ddi
AggReadDdi ==
    /\ cmd = "agg-ddi"
    /\ pc = "ddi_loop"
    /\ idx <= Len(args.ddi)
    /\ LET r == read_file(args.ddi[idx]) IN
       /\ opened' = Append(opened, [opt |-> "d", ok |-> r.tag = "Ok"])
       /\ IF r.tag = "Ok"
          THEN LET transformed_info == transform_ddi_to_cpp20modules_info(r.value)
               IN  /\ ddi' = r.value
                   /\ merged' = [done |-> TRUE, base |-> cpp20modules_info,
                                 incoming |-> transformed_info]
                   /\ cpp20modules_info' =
                        merge_cpp20modules_info(cpp20modules_info, transformed_info)
                   /\ idx' = idx + 1
                   /\ UNCHANGED <<pc, failure>>
          ELSE /\ pc' = "exit_err"
               /\ failure' = "read"
               /\ UNCHANGED <<ddi, merged, cpp20modules_info, idx>>
    /\ UNCHANGED <<cmd, cmdline, args, compiler, result, out>>

\* line 77 to line 87: args.ddi is exhausted, the loop over
\* args.cpp20modules_info starts
AggDdiDone ==
    /\ cmd = "agg-ddi"
    /\ pc = "ddi_loop"
    /\ idx > Len(args.ddi)
    /\ pc' = "info_loop"
    /\ idx' = 1
    /\ UNCHANGED <<cmd, cmdline, args, compiler, cpp20modules_info, ddi, merged,
                   result, out, opened, failure>>

\* lines 87-93: one iteration of the loop over args.cpp20modules_info
AggReadInfo ==
    /\ cmd = "agg-ddi"
    /\ pc = "info_loop"
    /\ idx <= Len(args.cpp20modules_info)
    /\ LET r == read_file(args.cpp20modules_info[idx]) IN
       /\ opened' = Append(opened, [opt |-> "m", ok |-> r.tag = "Ok"])
       /\ IF r.tag = "Ok"
          THEN /\ merged' = [done |-> TRUE, base |-> cpp20modules_info,
                             incoming |-> r.value]
               /\ cpp20modules_info' =
                    merge_cpp20modules_info(cpp20modules_info, r.value)
               /\ idx' = idx + 1
               /\ UNCHANGED <<pc, failure>>
          ELSE /\ pc' = "exit_err"
               /\ failure' = "read"
               /\ UNCHANGED <<merged, cpp20modules_info, idx>>
    /\ UNCHANGED <<cmd, cmdline, args, compiler, ddi, result, out>>

\* lines 96-99: serde_json::to_string_pretty(&cpp20modules_info)?
AggSerialize ==
    /\ cmd = "agg-ddi"
    /\ pc = "info_loop"
    /\ idx > Len(args.cpp20modules_info)
    /\ result' = to_string_pretty(cpp20modules_info)
    /\ pc' = "write_create"
    /\ UNCHANGED <<cmd, cmdline, args, compiler, cpp20modules_info, ddi, idx,
                   merged, out, opened, failure>>

\* line 82 alone: the fold of one descriptor
Fold ==
    /\ cmd = "agg-ddi"
    /\ pc = "fold"
    /\ cpp20modules_info' = transform_ddi_to_cpp20modules_info(ddi)
    /\ pc' = "folded"
    /\ UNCHANGED <<cmd, cmdline, args, compiler, ddi, idx, merged, result, out,
                   opened, failure>>

-----------------------------------------------------------------------------
(* The two commands, run on the files above *)

Init ==
    /\ cmd \in {"gen-modmap", "agg-ddi"}
    /\ IF cmd = "gen-modmap"
       THEN /\ cmdline \in GenCommandLines
            /\ args = cmdline
            /\ pc = "parse_compiler"
       ELSE /\ cmdline \in AggCommandLines
            /\ args = AggArgs(cmdline)
            /\ pc = "ddi_loop"
    /\ compiler = "none"
    /\ cpp20modules_info = NoInfo
    /\ ddi = NoDdi
    /\ idx = 1
    /\ merged = NoMerge
    /\ result = NoResult
    /\ out = Untouched
    /\ opened = <<>>
    /\ failure = ""

Next ==
    \/ GenParseCompiler
    \/ GenReadInfo
    \/ GenReadDdi
    \/ GenGenerate
    \/ AggReadDdi
    \/ AggDdiDone
    \/ AggReadInfo
    \/ AggSerialize
    \/ WriteCreate
    \/ WriteAll

Spec == Init /\ [][Next]_vars

-----------------------------------------------------------------------------
(* The fold alone: every descriptor *)

InitFold ==
    /\ cmd = "agg-ddi"
    /\ cmdline = <<>>
    /\ args = AggArgs(cmdline)
    /\ pc = "fold"
    /\ compiler = "none"
    /\ cpp20modules_info = NoInfo
    /\ ddi \in FoldDdis
    /\ idx = 1
    /\ merged = NoMerge
    /\ result = NoResult
    /\ out = Untouched
    /\ opened = <<>>
    /\ failure = ""

NextFold == Fold

SpecFold == InitFold /\ [][NextFold]_vars

-----------------------------------------------------------------------------
(* The resolver alone: every dialect, registry and descriptor *)

InitResolve ==
    /\ cmd = "gen-modmap"
    /\ cmdline = <<>>
    /\ args = <<>>
    /\ pc = "generate"
    /\ compiler \in Compilers
    /\ cpp20modules_info \in ResolveRegistries
    /\ ddi \in ResolveDdis
    /\ idx = 1
    /\ merged = NoMerge
    /\ result = NoResult
    /\ out = Untouched
    /\ opened = <<>>
    /\ failure = ""

NextResolve == GenGenerate

SpecResolve == InitResolve /\ [][NextResolve]_vars

-----------------------------------------------------------------------------
(* Vocabulary of the resolver claims *)

Resolved == result.tag # "None"

\* The rules whose provides is non-empty
Providing == {i \in 1..Len(ddi.rules) : ddi.rules[i].provides # <<>>}

FirstProviding == CHOOSE i \in Providing : \A k \in Providing : i <= k

FirstRule == ddi.rules[FirstProviding]

FirstName == FirstRule.provides[1].logical_name

MissingRequires(rule) ==
    {j \in 1..Len(rule.requires) :
        rule.requires[j].logical_name \notin DOMAIN cpp20modules_info.references}

FirstMissing(rule) ==
    rule.requires[CHOOSE j \in MissingRequires(rule) :
                     \A k \in MissingRequires(rule) : j <= k].logical_name

NewlineTerminated(text) == text = <<>> \/ text[Len(text)] = "\n"

\* The lines of a newline-terminated text, without their newlines
RECURSIVE LinesOf(_)
LinesOf(text) ==
    IF text = <<>> THEN <<>>
    ELSE LET n == CHOOSE k \in 1..Len(text) :
                     text[k] = "\n" /\ \A m \in 1..(k - 1) : text[m] # "\n"
         IN  <<SubSeq(text, 1, n - 1)>> \o LinesOf(SubSeq(text, n + 1, Len(text)))

DeclarationLines(c, bmi) ==
    IF c = "Msvc" THEN << <<"/module:output ", bmi>> >>
    ELSE << <<"-x c++-module">>, <<"-fmodule-output=", bmi>> >>

MappingLine(c, name) ==
    IF c = "Msvc"
    THEN <<"/module:reference ", name, "=", cpp20modules_info.references[name].path>>
    ELSE <<"-fmodule-file=", name, "=", cpp20modules_info.references[name].path>>

MappingLines(c, rule) ==
    [j \in 1..Len(rule.requires) |-> MappingLine(c, rule.requires[j].logical_name)]

-----------------------------------------------------------------------------
(* Claims about the resolver *)

\* C1: when the first rule with non-empty provides names a first Provide that
\* is absent from registry.modules, no output declaration is emitted but the
\* requires of that rule are resolved: one mapping line per Require when all
\* are in registry.references, the missing-reference error otherwise.
C1_RequiresResolvedWithoutModule ==
    (Resolved /\ Providing # {} /\ FirstName \notin DOMAIN cpp20modules_info.modules)
    => IF MissingRequires(FirstRule) = {}
       THEN /\ result.tag = "Ok"
            /\ NewlineTerminated(result.value)
            /\ LinesOf(result.value) = MappingLines(compiler, FirstRule)
       ELSE result.tag = "Err"

\* C2: only the first rule whose provides is non-empty is processed: the
\* result is the one the descriptor cut after that rule gives, so no later
\* rule contributes a line or a failure.
C2_OnlyFirstProvidingRule ==
    (Resolved /\ Providing # {})
    => result = generate_modmap(compiler, cpp20modules_info,
                    [ddi EXCEPT !.rules = SubSeq(ddi.rules, 1, FirstProviding)])

\* C3: if any Require of the processed rule (the first rule whose provides is
\* non-empty) has no entry in registry.references, the result is a failure
\* that names the logical name, and no text is returned.
C3_MissingReferenceFails ==
    (Resolved /\ Providing # {} /\ MissingRequires(FirstRule) # {})
    => /\ result.tag = "Err"
       /\ \E k \in 1..Len(result.value) : result.value[k] = FirstMissing(FirstRule)

\* C4: when the processed rule's first provided name is in registry.modules and
\* every Require is in registry.references, the result is exactly the output
\* declaration of the dialect followed by one mapping line per Require in the
\* descriptor's order, each line newline-terminated.
C4_ExactLines ==
    (/\ Resolved
     /\ Providing # {}
     /\ FirstName \in DOMAIN cpp20modules_info.modules
     /\ MissingRequires(FirstRule) = {})
    => /\ result.tag = "Ok"
       /\ NewlineTerminated(result.value)
       /\ LinesOf(result.value)
            = DeclarationLines(compiler, cpp20modules_info.modules[FirstName].bmi)
                \o MappingLines(compiler, FirstRule)

C4_Witness ==
    /\ Resolved
    /\ compiler = "Gcc"
    /\ Providing # {}
    /\ FirstProviding = 2
    /\ FirstName \in DOMAIN cpp20modules_info.modules
    /\ FirstRule.requires = <<Require("bar"), Require("foo")>>
    /\ MissingRequires(FirstRule) = {}
    /\ Len(LinesOf(result.value)) = 4

\* C10: if no rule has a non-empty provides, the result is the empty text for
\* every dialect and registry, even when the rules have requires that are
\* absent from registry.references.
C10_NoProvidingRuleEmptyText ==
    (Resolved /\ Providing = {}) => result = Ok(<<>>)

C10_Witness ==
    /\ Resolved
    /\ Providing = {}
    /\ \E i \in 1..Len(ddi.rules) : MissingRequires(ddi.rules[i]) # {}
    /\ result = Ok(<<>>)

-----------------------------------------------------------------------------
(* Vocabulary of the registry claims *)

\* Last-write-wins on one map: the keys are those of both operands, a key of
\* `incoming` has incoming's entry, a key of `base` alone keeps base's entry
LastWriteWins(after, base, incoming) ==
    /\ DOMAIN after = DOMAIN base \cup DOMAIN incoming
    /\ \A k \in DOMAIN after :
          after[k] = IF k \in DOMAIN incoming THEN incoming[k] ELSE base[k]

\* The registry an input of agg-ddi contributes
Fragment(option) ==
    IF option.opt = "d" THEN transform_ddi_to_cpp20modules_info(option.file.doc)
    ELSE option.file.doc

Defining(order, field, n) ==
    {k \in 1..Len(order) : n \in DOMAIN Fragment(order[k])[field]}

LastDefining(order, field, n) ==
    CHOOSE k \in Defining(order, field, n) :
        \A m \in Defining(order, field, n) : m <= k

\* The written registry holds, for every name, the entry of the last input of
\* `order` that defines the name, and no other name
WrittenFromLastOf(order) ==
    \A n \in Names :
       /\ IF Defining(order, "modules", n) = {}
          THEN n \notin DOMAIN out.content.modules
          ELSE /\ n \in DOMAIN out.content.modules
               /\ out.content.modules[n] =
                    ModuleJson(Fragment(order[LastDefining(order, "modules", n)])
                                 .modules[n])
       /\ IF Defining(order, "references", n) = {}
          THEN n \notin DOMAIN out.content.references
          ELSE /\ n \in DOMAIN out.content.references
               /\ out.content.references[n] =
                    ReferenceJson(Fragment(order[LastDefining(order, "references", n)])
                                    .references[n])

AggWritten == cmd = "agg-ddi" /\ out.state = "written"

\* The descriptors in the order given, then the registries in the order given
DescriptorsThenRegistries ==
    SelectSeq(cmdline, IsDdiOption) \o SelectSeq(cmdline, IsInfoOption)

RegistryInvariant(info) ==
    \A n \in DOMAIN info.modules :
       /\ n \in DOMAIN info.references
       /\ info.references[n].path = info.modules[n].bmi

InputRegistriesSatisfyInvariant ==
    \A k \in 1..Len(cmdline) :
       (cmdline[k].opt = "m" /\ cmdline[k].file.readable)
          => RegistryInvariant(cmdline[k].file.doc)

\* The places <<rule, provide>> where the descriptor provides a name
Occurrences(d, n) ==
    UNION {{<<i, j>> : j \in {k \in 1..Len(d.rules[i].provides) :
                                 d.rules[i].provides[k].logical_name = n}} :
           i \in 1..Len(d.rules)}

LastOccurrence(d, n) ==
    CHOOSE o \in Occurrences(d, n) :
        \A q \in Occurrences(d, n) : q[1] < o[1] \/ (q[1] = o[1] /\ q[2] <= o[2])

ProvidedNames(d) == {n \in Names : Occurrences(d, n) # {}}

-----------------------------------------------------------------------------
(* Claims about the registry builder and the commands *)

\* C5: merge_cpp20modules_info(base, incoming) is last-write-wins on modules
\* and on references: the entry of every name is incoming's if incoming has the
\* name and base's otherwise, and no key of base is removed.
C5_MergeLastWriteWins ==
    merged.done
    => /\ LastWriteWins(cpp20modules_info.modules,
                        merged.base.modules, merged.incoming.modules)
       /\ LastWriteWins(cpp20modules_info.references,
                        merged.base.references, merged.incoming.references)

C5_Witness ==
    /\ merged.done
    /\ "foo" \in DOMAIN merged.base.references
    /\ "foo" \in DOMAIN merged.incoming.references
    /\ merged.base.references["foo"].path # merged.incoming.references["foo"].path
    /\ cpp20modules_info.references["foo"].path
         = merged.incoming.references["foo"].path
    /\ "bar" \in DOMAIN merged.base.modules \ DOMAIN merged.incoming.modules
    /\ "bar" \in DOMAIN cpp20modules_info.modules

\* C6 as stated: the inputs are folded in the order given on the command line,
\* so the written entry of a name is the one of the input given last, be it a
\* descriptor or a registry document.
C6_LastGivenInputWins == AggWritten => WrittenFromLastOf(cmdline)

\* C6 as amended: all descriptors are folded first, in the order given, then
\* all registry documents, in the order given; the written entry of a name is
\* the one of the last registry document that defines it, or, if none does, of
\* the last descriptor that provides it.
C6_DescriptorsThenRegistries ==
    AggWritten => WrittenFromLastOf(DescriptorsThenRegistries)

C6_Witness ==
    /\ AggWritten
    /\ Len(cmdline) >= 2
    /\ cmdline[1].opt = "m"
    /\ cmdline[2].opt = "d"
    /\ "foo" \in DOMAIN Fragment(cmdline[1]).references
    /\ "foo" \in DOMAIN Fragment(cmdline[2]).references
    /\ Fragment(cmdline[1]).references["foo"] # Fragment(cmdline[2]).references["foo"]
    /\ out.content.references["foo"]
         = ReferenceJson(Fragment(cmdline[1]).references["foo"])

\* C7: after any sequence of folds of descriptors and merges of input
\* registries that satisfy the registry invariant, the registry of the
\* aggregate satisfies it: every name in modules is in references, with
\* references[name].path = modules[name].bmi.
C7_AggregateKeepsInvariant ==
    (cmd = "agg-ddi" /\ InputRegistriesSatisfyInvariant)
    => RegistryInvariant(cpp20modules_info)

\* C8: the fold of a descriptor has, as the keys of modules and of references,
\* exactly the names the descriptor provides; the entry of a name comes from
\* its last occurrence in rule/provide order: bmi and path are that rule's
\* primary_output, is_private is the negation of that provide's is_interface,
\* lookup_method is "by-name"; usages is empty.
C8_FoldFragment ==
    pc = "folded"
    => /\ DOMAIN cpp20modules_info.modules = ProvidedNames(ddi)
       /\ DOMAIN cpp20modules_info.references = ProvidedNames(ddi)
       /\ DOMAIN cpp20modules_info.usages = {}
       /\ \A n \in ProvidedNames(ddi) :
             LET o == LastOccurrence(ddi, n)
                 rule == ddi.rules[o[1]]
             IN  /\ cpp20modules_info.modules[n].bmi = rule.primary_output
                 /\ cpp20modules_info.modules[n].is_private
                      = ~rule.provides[o[2]].is_interface
                 /\ cpp20modules_info.references[n].path = rule.primary_output
                 /\ cpp20modules_info.references[n].lookup_method = "by-name"

C8_Witness ==
    /\ pc = "folded"
    /\ Len(ddi.rules) = 2
    /\ ddi.rules[1].primary_output # ddi.rules[2].primary_output
    /\ ddi.rules[1].provides = <<Provide(TRUE, "foo", "foo.cpp")>>
    /\ ddi.rules[2].provides
         = <<Provide(TRUE, "foo", "foo.cpp"), Provide(FALSE, "foo", "foo2.cpp")>>
    /\ ddi.rules[2].requires # <<>>
    /\ cpp20modules_info.modules["foo"] = Module(ddi.rules[2].primary_output, TRUE)
    /\ DOMAIN cpp20modules_info.references = {"foo"}

\* The parts of C9 that do not depend on where a failing run fails.
\* gen-modmap touches the output path only after the dialect is recognised,
\* both documents are read and parsed, and the resolution has succeeded; until
\* the dialect is recognised no input is read; agg-ddi touches the output path
\* only after every input document is read and parsed.
WriteOnlyAfterSuccess ==
    /\ (cmd = "gen-modmap" /\ out.state # "untouched")
       => /\ compiler \in Compilers
          /\ opened = <<[opt |-> "m", ok |-> TRUE], [opt |-> "d", ok |-> TRUE]>>
          /\ args.cpp20modules_info.readable
          /\ args.ddi.readable
          /\ cpp20modules_info = args.cpp20modules_info.doc
          /\ ddi = args.ddi.doc
          /\ result.tag = "Ok"
    /\ (cmd = "gen-modmap" /\ compiler \notin Compilers)
       => (opened = <<>> /\ out = Untouched)
    /\ (cmd = "agg-ddi" /\ out.state # "untouched")
       => /\ Len(opened) = Len(cmdline)
          /\ \A k \in 1..Len(opened) : opened[k].ok
          /\ \A k \in 1..Len(cmdline) : cmdline[k].file.readable

\* C9 as stated: the output is written only after every earlier step has
\* succeeded, an unknown dialect is rejected before any input is read, and in
\* every failing run no write to the output path happens.
C9_NoWriteInAnyFailingRun ==
    /\ WriteOnlyAfterSuccess
    /\ pc = "exit_err" => out = Untouched

\* C9 as amended: as stated, but a failing run leaves the output path
\* untouched when it fails before write_file or in write_file's File::create;
\* a run that fails in write_file's write_all has created the file.
C9_NoWriteBeforeWriteFile ==
    /\ WriteOnlyAfterSuccess
    /\ (pc = "exit_err" /\ failure # "write") => out = Untouched
    /\ (pc = "exit_err" /\ failure = "write") => out.state = "partial"

C9_Witness ==
    /\ cmd = "gen-modmap"
    /\ pc = "exit_ok"
    /\ args.compiler = <<"G", "C", "C">>
    /\ out.state = "written"
    /\ out.content = result.value
    /\ Len(out.content) > 5

\* The input registry documents of the command line that carry usages
InputsWithUsages ==
    {k \in 1..Len(cmdline) :
        /\ cmdline[k].opt = "m"
        /\ cmdline[k].file.readable
        /\ DOMAIN cmdline[k].file.doc.usages # {}}

\* C11: the registry agg-ddi writes has an empty usages mapping for every list
\* of inputs: no merge copies the usages of the incoming registry into the
\* accumulator, so the usages of an input registry document are dropped, while
\* its modules and references are in the accumulator after its merge.
C11_UsagesAlwaysEmpty ==
    /\ cmd = "agg-ddi" => DOMAIN cpp20modules_info.usages = {}
    /\ AggWritten => DOMAIN out.content.usages = {}
    /\ (cmd = "agg-ddi" /\ merged.done)
       => /\ cpp20modules_info.usages = merged.base.usages
          /\ DOMAIN merged.incoming.modules \subseteq DOMAIN cpp20modules_info.modules
          /\ DOMAIN merged.incoming.references
               \subseteq DOMAIN cpp20modules_info.references

C11_Witness ==
    /\ AggWritten
    /\ InputsWithUsages # {}
    /\ \E k \in InputsWithUsages :
          /\ k = Len(cmdline)
          /\ "foo" \in DOMAIN cmdline[k].file.doc.usages
          /\ out.content.modules["bar"] = ModuleJson(cmdline[k].file.doc.modules["bar"])
          /\ out.content.references["foo"]
               = ReferenceJson(cmdline[k].file.doc.references["foo"])
    /\ DOMAIN out.content.usages = {}

====
